---- MODULE Spec2Model ----
(***************************************************************************)
(* The editor API route of the Next.js app-router integration              *)
(* (dev/nextjs-app-router/app/page.tsx): the exported GET and POST         *)
(* endpoints, the dispatcher handleEditorNew and the three handlers        *)
(* handleDataNew, handleAssetNew and handleThemeNew.                       *)
(*                                                                         *)
(* A client slot holds one request from its arrival to the response the    *)
(* caller receives.  `inner` is the response the handler returned to the   *)
(* endpoint, `resp` the response the endpoint returned to the caller.      *)
(***************************************************************************)
EXTENDS Integers, Sequences, FiniteSets, TLC

VARIABLES pc, req, inner, resp, listing, completed, store, uploaded, lastUpd, after

vars == <<pc, req, inner, resp, listing, completed, store, uploaded, lastUpd, after>>

\* Longest directory listing readdir is taken to return.
MaxEntries == 4

Clients == {"c1", "c2"}

\* A query parameter that is not in the URL (undefined in the handler).
Undefined == "<undefined>"

(***************************************************************************)
(* JavaScript values that travel through the handlers.  One record shape   *)
(* for all of them, so that any two can be compared.                       *)
(***************************************************************************)
Val(k, t, l, b, u) == [kind |-> k, text |-> t, list |-> l, bytes |-> b, urls |-> u]

NoVal == Val("none", "", <<>>, <<>>, <<>>)

JStr(s) == Val("string", s, <<>>, <<>>, <<>>)

\* A plain object, named by `id`.
JObj(id) == Val("object", id, <<>>, <<>>, <<>>)

\* The object { error: msg }.
JErr(msg) == Val("error", msg, <<>>, <<>>, <<>>)

\* An array of { source, folder } objects.
JList(l) == Val("components", "", l, <<>>, <<>>)

\* An array of URL strings.
JUrls(u) == Val("urls", "", <<>>, <<>>, u)

\* A Buffer / ArrayBuffer.
Bytes(b) == Val("bytes", "", <<>>, b, <<>>)

EmptyObject == JObj("{}")

(***************************************************************************)
(* Responses.  clen is the Content-Length header: <<n>> when it was set to *)
(* n, <<>> when it was not set.  enc says how the body is written: "json"  *)
(* (the JSON text of val), "text" (the string val as it is) or "bytes".    *)
(***************************************************************************)
NoHeader == <<>>

Response(s, ct, cl, e, v) == [status |-> s, ctype |-> ct, clen |-> cl, enc |-> e, val |-> v]

NoResp == Response(0, "", NoHeader, "none", NoVal)

\* JSON.stringify: a Response object has no own enumerable string-keyed
\* properties, so it serialises as {}.
JsonStringify(x) == IF "status" \in DOMAIN x THEN EmptyObject ELSE x

\* NextResponse.json(body, { status })
NextResponseJson(x, s) == Response(s, "application/json", NoHeader, "json", JsonStringify(x))

\* The body of `new NextResponse(value, ...)` for a value that is no stream,
\* Blob or buffer: the value converted to a string.
ToBodyText(v) == IF v.kind = "string" THEN v ELSE JStr("[object Object]")

InternalError == NextResponseJson(JErr("Internal Server Error"), 500)

(***************************************************************************)
(* Paths are sequences of segments.  path.join concatenates and            *)
(* normalises: "." is dropped, ".." removes the segment before it.         *)
(***************************************************************************)
RECURSIVE Normalize(_, _)
Normalize(done, rest) ==
    IF rest = <<>> THEN done
    ELSE IF Head(rest) = "." THEN Normalize(done, Tail(rest))
    ELSE IF Head(rest) = ".."
         THEN Normalize(IF done = <<>> THEN <<>> ELSE SubSeq(done, 1, Len(done) - 1), Tail(rest))
    ELSE Normalize(Append(done, Head(rest)), Tail(rest))

Join(a, b) == Normalize(<<>>, a \o b)

IsPrefix(a, b) == Len(a) <= Len(b) /\ SubSeq(b, 1, Len(a)) = a

PackageRoot == <<"srv", "destack">>

\* The files of the machine: one image inside the package, one outside it.
Files ==
    { [path |-> <<"srv", "destack", "preview.png">>, data |-> <<137, 80, 78, 71>>],
      [path |-> <<"srv", "secret.png">>, data |-> <<1, 2>>] }

FileExists(p) == \E f \in Files : f.path = p

ReadFile(p) == (CHOOSE f \in Files : f.path = p).data

(***************************************************************************)
(* Requests.                                                               *)
(***************************************************************************)
Request(m, t, p, e, ct, b, n, f) ==
    [method |-> m, type |-> t, path |-> p, ext |-> e, ctype |-> ct, body |-> b, name |-> n,
     files |-> f]

NoReq == Request("", "", <<>>, Undefined, Undefined, NoVal, Undefined, <<>>)

Methods == {"GET", "POST"}

Formats == {"html", "json"}

Exts == {Undefined, "", "html", "json"}

\* Documents a caller saves: a markup string and a structured snapshot.
Docs == {JStr("<p>hi</p>"), JObj("snapshot")}

DefaultRoot == JObj("default-root")

StorePaths == {<<"home">>, <<"about">>}

Keys == StorePaths \X Formats

TraversalPath == <<"..", "secret">>

Multipart == "multipart/form-data; boundary=x"

AssetPaths ==
    { <<"preview.png">>, <<"missing.png">>, <<"..", "secret.png">>,
      <<"themes", "..", "preview.png">> }

ThemeNames == {"default", "nosuch"}

ExistingThemes == {"default"}

DataRequests ==
    { Request("GET", "data", p, e, Undefined, NoVal, Undefined, <<>>) :
        p \in {<<"home">>, TraversalPath}, e \in Exts }
    \cup
    { Request("POST", "data", p, e, "application/json", b, Undefined, <<>>) :
        p \in {<<"home">>, TraversalPath}, e \in Exts, b \in Docs }
    \cup
    { Request("POST", "data", <<"home">>, "json", Undefined, JStr("<p>hi</p>"), Undefined, <<>>),
      Request("POST", "data", <<"home">>, Undefined, Multipart, NoVal, Undefined, <<"pic.png">>) }

AssetRequests ==
    { Request(m, "asset", p, Undefined, Undefined, NoVal, Undefined, <<>>) :
        m \in Methods, p \in AssetPaths }

ThemeRequests ==
    { Request(m, "theme", <<>>, Undefined, Undefined, NoVal, n, <<>>) :
        m \in Methods, n \in ThemeNames }

OtherRequests ==
    { Request(m, t, <<>>, Undefined, Undefined, NoVal, Undefined, <<>>) :
        m \in Methods, t \in {"bogus", Undefined} }

Requests == DataRequests \cup AssetRequests \cup ThemeRequests \cup OtherRequests

\* Concurrent writers: plain updates of two documents in two formats.
ConcRequests ==
    { Request("POST", "data", p, e, "application/json", b, Undefined, <<>>) :
        p \in StorePaths, e \in {Undefined, "json"}, b \in Docs }

(***************************************************************************)
(* The document store behind loadData / updateData and the upload          *)
(* transport behind uploadFiles (lib/server/api/handle.ts).                *)
(***************************************************************************)
DataRoot == <<"srv", "app", "data">>

\* A path that resolves outside the store's root is rejected.
Escapes(p) == ~IsPrefix(DataRoot, Join(DataRoot, p))

\* load: a missing document opens as a single default root block.
loadData(st, p, fmt) ==
    IF Escapes(p) THEN [ok |-> FALSE, val |-> NoVal]
    ELSE [ok |-> TRUE,
          val |-> IF st[<<p, fmt>>] = NoVal THEN DefaultRoot ELSE st[<<p, fmt>>]]

\* save: the document at (path, format) is overwritten as a whole.
updateData(st, p, fmt, body) ==
    IF Escapes(p) THEN [ok |-> FALSE, store |-> st]
    ELSE [ok |-> TRUE, store |-> [st EXCEPT ![<<p, fmt>>] = body]]

\* upload: one URL per uploaded file, in order.
uploadFiles(files) == [i \in 1..Len(files) |-> "/uploaded/" \o files[i]]

(***************************************************************************)
(* handleDataNew                                                           *)
(***************************************************************************)
\* As ExtOrDefault, were the given ext dropped.
ExtDropped(e) == "html"

\* queryParams.ext || 'html'
ExtOrDefault(e) == IF e = Undefined \/ e = "" THEN "html" ELSE e

\* As DataKey, were the path not that of the request.
DataKeyFixedPath(q) == <<<<"home">>, ExtOrDefault(q.ext)>>

\* The arguments loadData and updateData are called with.
DataKey(q) == <<q.path, ExtOrDefault(q.ext)>>

\* contentType?.startsWith('multipart/form-data')
IsMultiPart(ct) ==
    /\ ct # Undefined
    /\ Len(ct) >= Len("multipart/form-data")
    /\ SubSeq(ct, 1, Len("multipart/form-data")) = "multipart/form-data"

IsLoad(q) == q.type = "data" /\ q.method = "GET"

IsUpdate(q) == q.type = "data" /\ q.method = "POST" /\ ~IsMultiPart(q.ctype)

IsUpload(q) == q.type = "data" /\ q.method = "POST" /\ IsMultiPart(q.ctype)

(***************************************************************************)
(* handleAssetNew                                                          *)
(***************************************************************************)
handleAssetNew(q) ==
    IF q.method = "GET"
    THEN LET assetPath == Join(PackageRoot, q.path)
         IN  IF FileExists(assetPath)
             THEN Response(200, "image/png", <<Len(ReadFile(assetPath))>>, "bytes",
                           Bytes(ReadFile(assetPath)))
             ELSE InternalError
    ELSE NextResponseJson(JErr("Method Not Allowed"), 405)

(***************************************************************************)
(* handleThemeNew                                                          *)
(***************************************************************************)
EntryNames == {"banner1", "footer1", "index.ts", ".hidden", "notes.txt"}

\* The entries that are folders holding an index.html; the others are files.
Folders == {"banner1", "footer1", ".hidden"}

SourceOf(c) == "<section>" \o c \o "</section>"

StartsWith(s, prefix) == Len(s) >= Len(prefix) /\ SubSeq(s, 1, Len(prefix)) = prefix

\* What readdir may return: any order of any entries, none twice.
Listings ==
    { l \in UNION { [1..n -> EntryNames] : n \in 0..MaxEntries } :
        \A i, j \in 1..Len(l) : i # j => l[i] # l[j] }

KeepEntry(c) == c # "index.ts" /\ ~StartsWith(c, ".")

KeepNotIndex(c) == c # "index.ts"

\* As ComponentNames, were hidden entries not filtered out.
ComponentNamesWithHidden(l) == SelectSeq(l, KeepNotIndex)

\* f.filter((c) => c !== 'index.ts' && !c.startsWith('.'))
ComponentNames(l) == SelectSeq(l, KeepEntry)

\* As Components, were the results collected as the reads settle.
ComponentsAsSettled(names, order) ==
    [j \in 1..Len(order) |->
        [source |-> SourceOf(names[order[j]]), folder |-> names[order[j]]]]

\* The value Promise.all resolves to: one result per name, by position
\* (`order` is the order the reads settled in, which it does not use).
Components(names, order) ==
    [i \in 1..Len(names) |-> [source |-> SourceOf(names[i]), folder |-> names[i]]]

(***************************************************************************)
(* The exported endpoints: what they make of the handler's response.       *)
(***************************************************************************)
GET(q, result) ==
    IF q.type = "theme"
    THEN IF result.enc = "json" THEN NextResponseJson(result.val, 200) ELSE InternalError
    ELSE IF q.type = "asset"
    THEN Response(200, "image/png", NoHeader, result.enc, result.val)
    ELSE IF result.enc = "json"
         THEN Response(200, "application/json", NoHeader, "text", ToBodyText(result.val))
         ELSE InternalError

POST(q, result) ==
    IF q.type = "theme"
    THEN IF result.enc = "json" THEN NextResponseJson(result.val, 200) ELSE InternalError
    ELSE NextResponseJson(result, 200)

Endpoint(q, result) == IF q.method = "GET" THEN GET(q, result) ELSE POST(q, result)

(***************************************************************************)
(* State.  lastUpd and after are history variables: lastUpd is the latest  *)
(* update that was written (whose request, by whom), after[c] says whether *)
(* the load of client c read the store right after an update of the very   *)
(* path and ext it asked for, and which body that update carried.          *)
(***************************************************************************)
NoUpd == [valid |-> FALSE, path |-> <<>>, ext |-> Undefined, body |-> NoVal, by |-> ""]

NoAfter == [valid |-> FALSE, body |-> NoVal]

Init ==
    /\ pc = [c \in Clients |-> "idle"]
    /\ req = [c \in Clients |-> NoReq]
    /\ inner = [c \in Clients |-> NoResp]
    /\ resp = [c \in Clients |-> NoResp]
    /\ listing = [c \in Clients |-> <<>>]
    /\ completed = [c \in Clients |-> <<>>]
    /\ store = [k \in Keys |-> NoVal]
    /\ uploaded = {}
    /\ lastUpd = NoUpd
    /\ after = [c \in Clients |-> NoAfter]

\* The handler returned `result`: the endpoint answers the caller.
Finish(c, result) ==
    /\ inner' = [inner EXCEPT ![c] = result]
    /\ resp' = [resp EXCEPT ![c] = Endpoint(req[c], result)]
    /\ pc' = [pc EXCEPT ![c] = "done"]

\* A request arrives; the slot's previous exchange is forgotten.
Arrive(c, q) ==
    /\ pc[c] \in {"idle", "done"}
    /\ pc' = [pc EXCEPT ![c] = "running"]
    /\ req' = [req EXCEPT ![c] = q]
    /\ inner' = [inner EXCEPT ![c] = NoResp]
    /\ resp' = [resp EXCEPT ![c] = NoResp]
    /\ listing' = [listing EXCEPT ![c] = <<>>]
    /\ completed' = [completed EXCEPT ![c] = <<>>]
    /\ after' = [after EXCEPT ![c] = NoAfter]
    /\ UNCHANGED <<store, uploaded, lastUpd>>

Receive(c) == \E q \in Requests : Arrive(c, q)

ReceiveUpdate(c) == \E q \in ConcRequests : Arrive(c, q)

\* handleEditorNew: no handler for this type.
InvalidType(c) ==
    /\ pc[c] = "running"
    /\ req[c].type \notin {"data", "asset", "theme"}
    /\ Finish(c, NextResponseJson(JErr("Invalid Type"), 400))
    /\ UNCHANGED <<req, listing, completed, store, uploaded, lastUpd, after>>

\* handleDataNew, GET: loadData, then the document as JSON.
DataLoad(c) ==
    /\ pc[c] = "running"
    /\ IsLoad(req[c])
    /\ LET k == DataKey(req[c])
           r == loadData(store, k[1], k[2])
       IN  /\ Finish(c, IF r.ok THEN NextResponseJson(r.val, 200) ELSE InternalError)
           /\ after' = [after EXCEPT ![c] =
                  IF r.ok /\ lastUpd.valid /\ lastUpd.path = req[c].path
                          /\ lastUpd.ext = req[c].ext
                  THEN [valid |-> TRUE, body |-> lastUpd.body]
                  ELSE NoAfter]
    /\ UNCHANGED <<req, listing, completed, store, uploaded, lastUpd>>

\* handleDataNew, POST that is not multipart: updateData, then {}.
DataUpdate(c) ==
    /\ pc[c] = "running"
    /\ IsUpdate(req[c])
    /\ LET k == DataKey(req[c])
           r == updateData(store, k[1], k[2], req[c].body)
       IN  /\ store' = r.store
           /\ Finish(c, IF r.ok THEN NextResponseJson(EmptyObject, 200) ELSE InternalError)
           /\ lastUpd' = IF r.ok
                         THEN [valid |-> TRUE, path |-> req[c].path, ext |-> req[c].ext,
                               body |-> req[c].body, by |-> c]
                         ELSE lastUpd
    /\ UNCHANGED <<req, listing, completed, uploaded, after>>

\* handleDataNew, multipart POST: uploadFiles, then the URLs.
DataUpload(c) ==
    /\ pc[c] = "running"
    /\ IsUpload(req[c])
    /\ uploaded' = uploaded \cup {req[c].files[i] : i \in 1..Len(req[c].files)}
    /\ Finish(c, NextResponseJson(JUrls(uploadFiles(req[c].files)), 200))
    /\ UNCHANGED <<req, listing, completed, store, lastUpd, after>>

\* handleAssetNew
AssetRequest(c) ==
    /\ pc[c] = "running"
    /\ req[c].type = "asset"
    /\ Finish(c, handleAssetNew(req[c]))
    /\ UNCHANGED <<req, listing, completed, store, uploaded, lastUpd, after>>

\* handleThemeNew up to the reads: the method check, readdir and the filter.
ThemeReaddir(c) ==
    /\ pc[c] = "running"
    /\ req[c].type = "theme"
    /\ IF req[c].method # "GET"
       THEN /\ Finish(c, NextResponseJson(JErr("Not allowed"), 405))
            /\ UNCHANGED listing
       ELSE IF req[c].name \notin ExistingThemes
       THEN /\ Finish(c, InternalError)
            /\ UNCHANGED listing
       ELSE \E l \in Listings :
              /\ listing' = [listing EXCEPT ![c] = l]
              /\ pc' = [pc EXCEPT ![c] = "reading"]
              /\ UNCHANGED <<inner, resp>>
    /\ UNCHANGED <<req, completed, store, uploaded, lastUpd, after>>

\* One of the reads started together settles: it resolves, or it rejects
\* and Promise.all rejects with it.
ThemeRead(c) ==
    /\ pc[c] = "reading"
    /\ LET names == ComponentNames(listing[c])
           done == {completed[c][j] : j \in 1..Len(completed[c])}
       IN  \E i \in (1..Len(names)) \ done :
              IF names[i] \in Folders
              THEN /\ completed' = [completed EXCEPT ![c] = Append(@, i)]
                   /\ UNCHANGED <<pc, inner, resp>>
              ELSE /\ Finish(c, InternalError)
                   /\ UNCHANGED completed
    /\ UNCHANGED <<req, listing, store, uploaded, lastUpd, after>>

\* Every read resolved: Promise.all resolves and the list is returned.
ThemeRespond(c) ==
    /\ pc[c] = "reading"
    /\ LET names == ComponentNames(listing[c])
       IN  /\ Len(completed[c]) = Len(names)
           /\ Finish(c, NextResponseJson(JList(Components(names, completed[c])), 200))
    /\ UNCHANGED <<req, listing, completed, store, uploaded, lastUpd, after>>

Editor == "c1"

Next ==
    \/ Receive(Editor)
    \/ InvalidType(Editor)
    \/ DataLoad(Editor)
    \/ DataUpdate(Editor)
    \/ DataUpload(Editor)
    \/ AssetRequest(Editor)
    \/ ThemeReaddir(Editor)
    \/ ThemeRead(Editor)
    \/ ThemeRespond(Editor)

\* One caller, one request at a time.
Spec == Init /\ [][Next]_vars

NextConc == \E c \in Clients : ReceiveUpdate(c) \/ DataUpdate(c)

\* Two callers that update documents at the same time.
SpecConc == Init /\ [][NextConc]_vars

(***************************************************************************)
(* Properties.                                                             *)
(***************************************************************************)
Done(c) == pc[c] = "done"

\* The format a request's ext stands for.
FormatOf(q) == IF q.ext \in {Undefined, ""} THEN "html" ELSE q.ext

\* A directory entry a theme listing is to show.
IsListed(n) == n # "index.ts" /\ SubSeq(n, 1, 1) # "."

Entries(l) == {l[i] : i \in 1..Len(l)}

IsThemeListing(c) ==
    Done(c) /\ req[c].type = "theme" /\ req[c].method = "GET" /\ req[c].name \in ExistingThemes

IsAssetFetch(c) == Done(c) /\ req[c].type = "asset" /\ req[c].method = "GET"

\* C1: a request whose type is none of data, asset, theme is answered with
\* status 400 and the JSON error 'Invalid Type'; a request whose type is
\* known but whose method the operation does not support (POST with asset
\* or theme) is answered with status 405.
C1_InvalidTypeAndMethod ==
    \A c \in Clients : Done(c) =>
        /\ req[c].type \notin {"data", "asset", "theme"} =>
              /\ resp[c].status = 400
              /\ resp[c].enc = "json"
              /\ resp[c].val = JErr("Invalid Type")
        /\ req[c].type \in {"asset", "theme"} /\ req[c].method = "POST" =>
              resp[c].status = 405

\* C2: an asset fetch whose path, joined onto the package root, resolves
\* outside the package root is rejected, and no file outside the package
\* root is read or returned.
C2_TraversalRejected ==
    \A c \in Clients :
        IsAssetFetch(c) /\ ~IsPrefix(PackageRoot, Join(PackageRoot, req[c].path)) =>
            /\ inner[c].status >= 400
            /\ resp[c].status >= 400
            /\ resp[c].val.kind # "bytes"

OperationFailed(c) ==
    \/ req[c].type = "theme" /\ req[c].method = "GET" /\ req[c].name \notin ExistingThemes
    \/ IsThemeListing(c) /\ \E n \in Entries(listing[c]) : IsListed(n) /\ n \notin Folders
    \/ IsAssetFetch(c) /\ ~FileExists(Join(PackageRoot, req[c].path))
    \/ (IsLoad(req[c]) \/ IsUpdate(req[c])) /\ Escapes(req[c].path)

\* C4: when an internal operation fails while a request is served, the
\* caller receives status 500 and a generic JSON error object, never a
\* success status.
C4_FailureIs500 ==
    \A c \in Clients : Done(c) /\ OperationFailed(c) =>
        /\ resp[c].status = 500
        /\ resp[c].enc = "json"
        /\ resp[c].val.kind = "error"

\* C5: a successful asset fetch answers with the file's bytes unchanged,
\* Content-Type image/png and a Content-Length equal to the file's length.
C5_AssetResponse ==
    \A c \in Clients :
        IsAssetFetch(c) /\ FileExists(Join(PackageRoot, req[c].path)) =>
            LET data == ReadFile(Join(PackageRoot, req[c].path))
            IN  /\ resp[c].val = Bytes(data)
                /\ resp[c].ctype = "image/png"
                /\ resp[c].clen = <<Len(data)>>

\* C6: a load that immediately follows a successful update of the same
\* path and ext returns a document equal to the update's body, and the
\* update itself returns an empty success object.
C6_SaveLoadRoundTrip ==
    \A c \in Clients : Done(c) =>
        /\ IsLoad(req[c]) /\ after[c].valid =>
              resp[c].status = 200 /\ resp[c].val = after[c].body
        /\ IsUpdate(req[c]) /\ ~Escapes(req[c].path) =>
              resp[c].status = 200 /\ resp[c].val = EmptyObject

C8_ExtDefaultsToHtml ==
    [][\A c \in Clients :
          pc[c] = "running" /\ pc'[c] = "done" /\ req[c].type = "data"
              /\ ~Escapes(req[c].path) =>
          LET k == <<req[c].path, FormatOf(req[c])>>
          IN  /\ IsUpdate(req[c]) => store'[k] = req[c].body
              /\ IsLoad(req[c]) =>
                    inner'[c].val = IF store[k] = NoVal THEN DefaultRoot ELSE store[k]]_vars

\* A load without ext that read the document an update without ext wrote.
C8_Witness ==
    \E c \in Clients :
        /\ Done(c) /\ IsLoad(req[c]) /\ req[c].ext = Undefined
        /\ after[c].valid /\ lastUpd.ext = Undefined
        /\ inner[c].val = after[c].body
        /\ store[<<req[c].path, "html">>] = after[c].body

\* C9: a POST with type=data whose content type starts with
\* multipart/form-data is handled as an upload, changes no stored document,
\* and the caller receives the sequence of asset URLs the upload produced.
C9_UploadReturnsUrls ==
    /\ [][\A c \in Clients :
              pc[c] = "running" /\ pc'[c] = "done" /\ IsUpload(req[c]) => store' = store]_vars
    /\ [](\A c \in Clients : Done(c) /\ IsUpload(req[c]) =>
              /\ resp[c].status = 200
              /\ resp[c].val.kind = "urls"
              /\ resp[c].val.urls = [i \in 1..Len(req[c].files) |-> "/uploaded/" \o req[c].files[i]])

\* C10: the reads of a theme listing settle in any order, yet a successful
\* result lists the entries in the order of the filtered directory listing;
\* and if a listed entry cannot be read the handler returns an error
\* response, never a partial list.
C10_AllOrNothingInOrder ==
    \A c \in Clients : IsThemeListing(c) =>
        LET names == SelectSeq(listing[c], IsListed)
            out == inner[c].val.list
        IN  IF \A i \in 1..Len(names) : names[i] \in Folders
            THEN /\ inner[c].status = 200
                 /\ inner[c].val.kind = "components"
                 /\ Len(out) = Len(names)
                 /\ \A i \in 1..Len(names) : out[i].folder = names[i]
            ELSE /\ inner[c].status = 500
                 /\ inner[c].val = JErr("Internal Server Error")

\* A listing whose second read settled before its first, returned in the
\* order of the directory listing.
C10_Witness ==
    \E c \in Clients :
        /\ IsThemeListing(c)
        /\ completed[c] = <<2, 1>>
        /\ inner[c].status = 200
        /\ inner[c].val.list[1].folder = ComponentNames(listing[c])[1]

====
